---- MODULE Spec2Model ----
(***************************************************************************)
(* MatrixMDPEnv (src/matrix_mdp/envs/matrix_mdp.py): a gym environment      *)
(* over a finite MDP given by p_0, p and r.                                 *)
(*                                                                          *)
(* Probabilities are exact rationals in units of 1/One, so "sum = 1" is     *)
(* "sum = One".  The uniform draw of np.random.choice is one of the One     *)
(* cells [u/One, (u+1)/One) and the draw is the inverse CDF, as numpy does  *)
(* it (cumsum, searchsorted side='right').  The module-level numpy          *)
(* generator is the variable np_global; the code never seeds it.            *)
(* numpy indexing is modelled with its wrap-around of negative indices.     *)
(* np.int (line 116) is taken as the alias of int it is in the numpy        *)
(* releases that still have it.                                             *)
(***************************************************************************)
EXTENDS Integers, Sequences, FiniteSets, TLC

\* ---- bounds of the model ----
MaxStates == 2
MaxActions == 2
One == 2
MaxReward == 1
MaxSteps == 1
MaxSeed == 0
RngMod == 4

Engines == {1, 2}

VARIABLES
    n_s,        \* p.shape[0]
    n_a,        \* p.shape[2]
    p_0,        \* constructor argument p_0: [0..n_s-1 -> Nat]
    p,          \* constructor argument p: [<<next_state, state, action>> -> Nat]
    r,          \* constructor argument r: [<<state, action>> -> Int]
    engines,    \* the engine objects of this run
    env,        \* env[e]: the fields of engine object e
    np_global,  \* state of numpy's module-level generator (np.random)
    hist,       \* hist[e]: the step and reset calls on e since its last reset
    render_mode,\* constructor argument render_mode: {} (None) or {"human"}
    caller,     \* "any": the caller also passes out-of-range actions and
                \* start states; "documented": only actions 0..n_a-1, no start state
    out,        \* the last line written to the console or the gym logger
    last_op     \* last_op[e]: the method of e called last

vars == <<n_s, n_a, p_0, p, r, engines, env, np_global, hist, render_mode, caller,
          out, last_op>>

\* ---- pure helpers ----

RECURSIVE SumTo(_, _)
\* f[0] + ... + f[n-1]
SumTo(f, n) == IF n = 0 THEN 0 ELSE f[n - 1] + SumTo(f, n - 1)

\* ndarray.sum() of a vector of length n
VecSum(f, n) == SumTo(f, n)

\* the column p[:, s, a] as a vector over next_state
Column(pp, n, s, a) == [s2 \in 0..(n - 1) |-> pp[<<s2, s, a>>]]

\* p[:, :, k].sum(): all entries whose third index is k
SliceSum(pp, n, k) ==
    SumTo([j \in 0..(n - 1) |-> SumTo([i \in 0..(n - 1) |-> pp[<<i, j, k>>]], n)], n)

\* numpy integer indexing into an axis of length n: -n..n-1 are in bounds,
\* negative indices count from the end
InBoundsNonNegative(i, n) == i >= 0 /\ i < n
InBounds(i, n) == i >= 0 - n /\ i < n
Norm(i, n) == IF i < 0 THEN i + n ELSE i

\* the numpy global generator: next state and the uniform cell it yields
NextRandom(g) == (5 * g + 3) % RngMod
Uniform(g) == (g * One) \div RngMod

\* np.random.choice(states_array, p=w): first index whose cumulative weight
\* exceeds the uniform draw
Choice(w, n, u) ==
    CHOOSE k \in 0..(n - 1) :
        /\ SumTo(w, k + 1) > u
        /\ \A j \in 0..(k - 1) : SumTo(w, j + 1) <= u

\* ---- the checks of __init__ ----

\* line 74: p_0.sum() != 1 raises
P0CheckStrict(pz, n) == VecSum(pz, n) >= One
P0Check(pz, n) == VecSum(pz, n) = One

\* line 78: p[:,s,a].sum() != 1 raises
ColumnCheckZeroOrOne(pp, n, s, a) == VecSum(Column(pp, n, s, a), n) \in {0, One}
ColumnCheckLoose(pp, n, s, a) == VecSum(Column(pp, n, s, a), n) <= One
ColumnCheck(pp, n, s, a) == VecSum(Column(pp, n, s, a), n) = One

\* line 87: the states whose slice p[:, :, s] sums to 0
TerminalStatesNonZero(pp, n) == {s \in 0..(n - 1) : SliceSum(pp, n, s) # 0}
TerminalStates(pp, n) == {s \in 0..(n - 1) : SliceSum(pp, n, s) = 0}

\* line 87 as a whole: indexing p[:, :, s] with a state id s >= p.shape[2]
\* raises IndexError; otherwise the list of terminal states
TerminalDerivationByState(pp, n, m) ==
    [raised |-> FALSE,
     value |-> {s \in 0..(n - 1) :
                   SumTo([a \in 0..(m - 1) |-> VecSum(Column(pp, n, s, a), n)], m) = 0}]
TerminalDerivation(pp, n, m) ==
    IF \E s \in 0..(n - 1) : ~InBounds(s, m)
    THEN [raised |-> TRUE, value |-> {}]
    ELSE [raised |-> FALSE, value |-> TerminalStates(pp, n)]

\* ---- engine objects ----

NoEngine ==
    [status |-> "none", attrs |-> {}, terminal_states |-> {}, state |-> 0,
     np_random |-> {}]

\* a call record; fields a call does not have keep these fillers
NoCall ==
    [op |-> "", seed |-> {}, options |-> {}, action |-> 0, exc |-> "",
     state_before |-> 0, sampled |-> 0, obs |-> <<>>, reward |-> 0,
     terminated |-> FALSE, truncated |-> FALSE, info |-> {}, returned |-> FALSE]

\* line 116: _get_obs
GetObsOneBased(self) == <<self.state + 1>>
GetObs(self) == <<self.state>>

\* ---- __init__ (lines 64-90) ----

InitAttrs == {"p_0", "p", "r", "action_space", "observation_space", "states_array"}

Construct(e) ==
    /\ env[e].status = "none"
    /\ last_op' = [last_op EXCEPT ![e] = "__init__"]
    /\ LET base == [env[e] EXCEPT !.attrs = InitAttrs]
           u == Uniform(np_global)
       IN  IF ~P0Check(p_0, n_s)
           THEN /\ env' = [env EXCEPT ![e] = [base EXCEPT !.status = "ValueError_p_0"]]
                /\ UNCHANGED np_global
           ELSE IF \E s \in 0..(n_s - 1), a \in 0..(n_a - 1) : ~ColumnCheck(p, n_s, s, a)
           THEN /\ env' = [env EXCEPT ![e] = [base EXCEPT !.status = "ValueError_p"]]
                /\ UNCHANGED np_global
           ELSE IF TerminalDerivation(p, n_s, n_a).raised
           THEN /\ env' = [env EXCEPT ![e] =
                        [base EXCEPT !.status = "IndexError",
                                     !.attrs = InitAttrs \cup {"render_mode"}]]
                /\ UNCHANGED np_global
           ELSE /\ env' = [env EXCEPT ![e] =
                        [base EXCEPT !.status = "ok",
                                     !.attrs = InitAttrs \cup
                                         {"render_mode", "terminal_states", "state"},
                                     !.terminal_states = TerminalDerivation(p, n_s, n_a).value,
                                     !.state = Choice(p_0, n_s, u)]]
                /\ np_global' = NextRandom(np_global)
    /\ UNCHANGED <<n_s, n_a, p_0, p, r, engines, hist, render_mode, caller, out>>

\* ---- render and close (lines 118-131) ----

\* line 128: print(f"Current state: {self.state}")
Printed(self) == <<"Current state", self.state>>

\* lines 98-99 and 111-112: step and reset call render in the human mode
RenderIfHuman(self, o) == IF render_mode = {"human"} THEN Printed(self) ELSE o

\* the assignments render makes to self: there are none
RenderSelfForgetsState(self) == [self EXCEPT !.state = 0]
RenderSelf(self) == self

\* the assignments close makes to self: there are none (the body is pass)
CloseSelf(self) == self

\* lines 118-128.  Without a render mode the warning's text reads
\* self.spec.id: self.spec is set by gym.make and is None on an engine built
\* by calling the class, where the read raises AttributeError and nothing is
\* logged.
Render(e) ==
    /\ env[e].status = "ok"
    /\ env' = [env EXCEPT ![e] = RenderSelf(@)]
    /\ last_op' = [last_op EXCEPT ![e] = "render"]
    /\ IF render_mode = {}
       THEN \E via_make \in BOOLEAN : out' = IF via_make THEN <<"warn">> ELSE out
       ELSE out' = RenderIfHuman(env[e], out)
    /\ UNCHANGED <<n_s, n_a, p_0, p, r, engines, render_mode, caller, np_global, hist>>

\* lines 130-131
Close(e) ==
    /\ env[e].status = "ok"
    /\ env' = [env EXCEPT ![e] = CloseSelf(@)]
    /\ last_op' = [last_op EXCEPT ![e] = "close"]
    /\ UNCHANGED <<n_s, n_a, p_0, p, r, engines, render_mode, caller, np_global, hist,
                   out>>

\* ---- step (lines 92-100) ----

\* line 94: the weights self.p[:, self.state, action] (indices in bounds)
StepColumnAxesSwapped(pp, n, s, a) ==
    IF a < n /\ s < n_a
    THEN [s2 \in 0..(n - 1) |-> pp[<<s2, a, s>>]]
    ELSE Column(pp, n, s, a)
StepColumn(pp, n, s, a) == Column(pp, n, s, a)

\* line 95: reward = self.r[self.state, action]
StepRewardOfNewState(self, rr, action, new_state) ==
    rr[<<Norm(new_state, n_s), Norm(action, n_a)>>]
StepReward(self, rr, action, new_state) ==
    rr[<<Norm(self.state, n_s), Norm(action, n_a)>>]

\* line 96: done = (new_state in self.terminal_states)
StepDoneNegated(self, new_state) == new_state \notin self.terminal_states
StepDone(self, new_state) == new_state \in self.terminal_states

\* the assignments step makes to self: there are none (new_state stays a local)
StepSelf(self, new_state) == self

\* line 100: return self._get_obs(), reward, done, done, {}
StepReturn(self, reward, done) ==
    [obs |-> GetObs(self), reward |-> reward, terminated |-> done,
     truncated |-> done, info |-> {}]

\* the actions tried: every index numpy accepts (-n_a..n_a-1) and one beyond
\* it on each side
StepActions == IF caller = "any" THEN (0 - (n_a + 1))..n_a ELSE 0..(n_a - 1)

Step(e, action) ==
    /\ env[e].status = "ok"
    /\ last_op' = [last_op EXCEPT ![e] = "step"]
    /\ Len(hist[e]) <= MaxSteps
    /\ LET self == env[e]
           call == [NoCall EXCEPT !.op = "step", !.action = action,
                                  !.state_before = self.state]
       IN  IF ~InBounds(self.state, n_s) \/ ~InBounds(action, n_a)
           THEN \* line 94: indexing self.p[:, self.state, action]
                /\ hist' = [hist EXCEPT ![e] =
                        Append(@, [call EXCEPT !.exc = "IndexError"])]
                /\ UNCHANGED <<env, np_global, out>>
           ELSE LET col == StepColumn(p, n_s, Norm(self.state, n_s), Norm(action, n_a))
                IN  IF VecSum(col, n_s) # One
                    THEN \* np.random.choice: probabilities do not sum to 1
                         /\ hist' = [hist EXCEPT ![e] =
                                 Append(@, [call EXCEPT !.exc = "ValueError"])]
                         /\ UNCHANGED <<env, np_global, out>>
                    ELSE LET new_state == Choice(col, n_s, Uniform(np_global))
                             reward == StepReward(self, r, action, new_state)
                             done == StepDone(self, new_state)
                             after == StepSelf(self, new_state)
                             ret == StepReturn(after, reward, done)
                         IN  /\ np_global' = NextRandom(np_global)
                             /\ env' = [env EXCEPT ![e] = after]
                             /\ out' = RenderIfHuman(after, out)
                             /\ hist' = [hist EXCEPT ![e] = Append(@,
                                     [call EXCEPT !.sampled = new_state,
                                                  !.obs = ret.obs,
                                                  !.reward = ret.reward,
                                                  !.terminated = ret.terminated,
                                                  !.truncated = ret.truncated,
                                                  !.info = ret.info,
                                                  !.returned = TRUE])]
    /\ UNCHANGED <<n_s, n_a, p_0, p, r, engines, render_mode, caller>>

\* ---- reset (lines 102-113) ----

\* an optional value is the empty set (None) or a singleton; a dict is a set
\* of <<key, value>> pairs
Seeds == {{}} \cup {{k} : k \in 0..MaxSeed}
StartStates == (0 - 1)..n_s
OptionsArgs ==
    {{}} \cup {{{}}} \cup
    (IF caller = "any" THEN {{{<<"start_state", k>>}} : k \in StartStates} ELSE {})

HasKey(d, key) == \E kv \in d : kv[1] = key
Get(d, key) == (CHOOSE kv \in d : kv[1] = key)[2]
TheValue(opt) == CHOOSE x \in opt : TRUE

\* line 103: super().reset(seed=seed) reseeds self.np_random when a seed is given
SuperReset(self, seed) == IF seed # {} THEN [self EXCEPT !.np_random = seed] ELSE self

\* line 105: np.random.choice(self.states_array, p=self.p_0)
ResetSampleUnweighted(pz, n, u) == (u * n) \div One
ResetSample(pz, n, u) == Choice(pz, n, u)

\* lines 105-107: the start state after the options are looked at
StartStateIgnoringOptions(options, sampled) == sampled
StartState(options, sampled) ==
    IF options # {} /\ HasKey(TheValue(options), "start_state")
    THEN Get(TheValue(options), "start_state")
    ELSE sampled

Reset(e, seed, options) ==
    /\ env[e].status = "ok"
    /\ last_op' = [last_op EXCEPT ![e] = "reset"]
    /\ LET seeded == SuperReset(env[e], seed)
           sampled == ResetSample(p_0, n_s, Uniform(np_global))
           after == [seeded EXCEPT !.state = StartState(options, sampled)]
       IN  /\ np_global' = NextRandom(np_global)
           /\ env' = [env EXCEPT ![e] = after]
           /\ out' = RenderIfHuman(after, out)
           /\ hist' = [hist EXCEPT ![e] =
                   <<[NoCall EXCEPT !.op = "reset", !.seed = seed,
                                    !.options = options,
                                    !.sampled = sampled,
                                    !.obs = GetObs(after),
                                    !.info = {},
                                    !.returned = TRUE]>>]
    /\ UNCHANGED <<n_s, n_a, p_0, p, r, engines, render_mode, caller>>

\* ---- the inputs ----

PointMass(n, k) == [i \in 0..(n - 1) |-> IF i = k THEN One ELSE 0]
Zero(n) == [i \in 0..(n - 1) |-> 0]
Split(n) == [i \in 0..(n - 1) |->
                (IF i = 0 THEN One - 1 ELSE 0) + (IF i = n - 1 THEN 1 ELSE 0)]
Deficient(n) == [i \in 0..(n - 1) |-> IF i = 0 THEN One - 1 ELSE 0]
Excess(n) == [i \in 0..(n - 1) |->
                (IF i = 0 THEN One ELSE 0) + (IF i = n - 1 THEN 1 ELSE 0)]

\* the vectors p_0 and the columns of p are drawn from
Columns(n) ==
    {PointMass(n, k) : k \in 0..(n - 1)} \cup {Zero(n), Split(n), Deficient(n), Excess(n)}

\* the tensors: one column everywhere, and another one at one (state, action)
Tensors(n, m) ==
    {[t \in (0..(n - 1)) \X (0..(n - 1)) \X (0..(m - 1)) |->
        IF <<t[2], t[3]>> = at THEN c1[t[1]] ELSE c0[t[1]]] :
        c0 \in Columns(n), c1 \in Columns(n), at \in (0..(n - 1)) \X (0..(m - 1))}

RewardTables(n, m) ==
    {[t \in (0..(n - 1)) \X (0..(m - 1)) |->
        (w[1] + w[2] * t[1] + w[3] * t[2]) % (MaxReward + 1)] :
        w \in (0..MaxReward) \X (0..MaxReward) \X (0..MaxReward)}

InitWith(E, modes, callers) ==
    /\ render_mode \in modes
    /\ caller \in callers
    /\ out = <<>>
    /\ last_op = [e \in Engines |-> ""]
    /\ n_s \in 1..MaxStates
    /\ n_a \in 1..MaxActions
    /\ p_0 \in Columns(n_s)
    /\ p \in Tensors(n_s, n_a)
    /\ r \in RewardTables(n_s, n_a)
    /\ engines = E
    /\ env = [e \in Engines |-> NoEngine]
    /\ np_global \in 0..(RngMod - 1)
    /\ hist = [e \in Engines |-> <<>>]

\* one engine with the default render mode
Init == InitWith({1}, {{}}, {"any"})

\* one engine in either render mode, on which render and close are called too
InitRender ==
    /\ InitWith({1}, {{}, {"human"}}, {"any"})
    /\ n_s = n_a
    /\ p_0 = Split(n_s)
    /\ \E c \in {PointMass(n_s, 0), Split(n_s)} :
        p = [t \in (0..(n_s - 1)) \X (0..(n_s - 1)) \X (0..(n_a - 1)) |-> c[t[1]]]
    /\ r = [t \in (0..(n_s - 1)) \X (0..(n_a - 1)) |-> t[1] % (MaxReward + 1)]

\* two engines built from the same p_0, p and r: as many actions as states,
\* p_0 and every column of p the split distribution, r[s, a] = s, the default
\* render mode, and a caller that keeps to the documented arguments
InitPair ==
    /\ InitWith({1, 2}, {{}}, {"documented"})
    /\ n_s = n_a
    /\ p_0 = Split(n_s)
    /\ p = [t \in (0..(n_s - 1)) \X (0..(n_s - 1)) \X (0..(n_a - 1)) |-> Split(n_s)[t[1]]]
    /\ r = [t \in (0..(n_s - 1)) \X (0..(n_a - 1)) |-> t[1] % (MaxReward + 1)]

Next ==
    \/ \E e \in engines : Construct(e)
    \/ \E e \in engines, seed \in Seeds, options \in OptionsArgs : Reset(e, seed, options)
    \/ \E e \in engines, action \in StepActions : Step(e, action)

\* all five methods
NextRender ==
    \/ Next
    \/ \E e \in engines : Render(e)
    \/ \E e \in engines : Close(e)

Spec == Init /\ [][Next]_vars

SpecRender == InitRender /\ [][NextRender]_vars

SpecPair == InitPair /\ [][Next]_vars

\* ---- properties ----

States == 0..(n_s - 1)
Actions == 0..(n_a - 1)
Constructed(e) == env[e].status # "none"
Failed(e) == env[e].status \in {"ValueError_p_0", "ValueError_p"}
LastCall(e) == hist[e][Len(hist[e])]
StepReturned(c) == c.op = "step" /\ c.returned
HasOverride(c) == c.options # {} /\ HasKey(TheValue(c.options), "start_state")
ColSum(s, a) == VecSum(Column(p, n_s, s, a), n_s)

\* the 2-state, 1-action MDP of P3: state 0 goes to state 1, state 1 has no
\* outgoing mass
TwoStateChain ==
    /\ n_s = 2 /\ n_a = 1
    /\ VecSum(p_0, n_s) = One
    /\ Column(p, n_s, 0, 0) = PointMass(2, 1)
    /\ Column(p, n_s, 1, 0) = Zero(2)

\* the scenario of section 8
Scenario ==
    /\ TwoStateChain
    /\ p_0 = PointMass(2, 0)
    /\ r[<<0, 0>>] = 0 /\ r[<<1, 0>>] = 1

\* C1: after every step that returned, the engine's state is the state the
\* step sampled, and the observation returned is that state.
C1_StepAdvancesState ==
    \A e \in engines :
        (hist[e] # <<>> /\ StepReturned(LastCall(e))) =>
            /\ env[e].state = LastCall(e).sampled
            /\ LastCall(e).obs = <<LastCall(e).sampled>>

\* C2: the two-state chain can be constructed, and a step reports
\* terminated exactly when the state it sampled is state 1.
C2_ChainTerminatesOnState1 ==
    TwoStateChain =>
        \A e \in engines :
            /\ Constructed(e) => env[e].status = "ok"
            /\ \A i \in 1..Len(hist[e]) :
                StepReturned(hist[e][i]) =>
                    (hist[e][i].terminated <=> hist[e][i].sampled = 1)

\* C3: in the scenario construction succeeds, reset() returns observation 0
\* and the step(0) after it returns observation 1, reward 1, terminated.
C3_ScenarioRun ==
    Scenario =>
        \A e \in engines :
            /\ Constructed(e) => env[e].status = "ok"
            /\ (hist[e] # <<>> /\ hist[e][1].op = "reset" /\ ~HasOverride(hist[e][1])) =>
                /\ hist[e][1].obs = <<0>>
                /\ (Len(hist[e]) >= 2 /\ hist[e][2].action = 0) =>
                    /\ hist[e][2].returned
                    /\ hist[e][2].obs = <<1>>
                    /\ hist[e][2].reward = 1
                    /\ hist[e][2].terminated

\* C4: when p_0 does not sum to 1, construction raises the ValueError of the
\* p_0 check and the object has neither a state nor a terminal set.
C4_BadP0Rejected ==
    \A e \in engines :
        (Constructed(e) /\ VecSum(p_0, n_s) # One) =>
            /\ env[e].status = "ValueError_p_0"
            /\ "state" \notin env[e].attrs
            /\ "terminal_states" \notin env[e].attrs

C4_Witness ==
    \E e \in engines :
        /\ env[e].status = "ValueError_p_0"
        /\ VecSum(p_0, n_s) \notin {0, One}
        /\ \A s \in States, a \in Actions : ColSum(s, a) = One

\* C5: when some column p[:, s, a] sums to neither 0 nor 1, construction
\* raises a ValueError.
C5_BadColumnRejected ==
    \A e \in engines :
        (Constructed(e) /\ \E s \in States, a \in Actions : ColSum(s, a) \notin {0, One}) =>
            Failed(e)

C5_Witness ==
    \E e \in engines :
        /\ env[e].status = "ValueError_p"
        /\ VecSum(p_0, n_s) = One
        /\ \E s \in States, a \in Actions : ColSum(s, a) \notin {0, One}

\* C6: when p_0 sums to 1 and every column sums to 1 or to 0, construction
\* does not raise the ValueError of the checks.
C6_ZeroColumnAccepted ==
    \A e \in engines :
        (/\ Constructed(e)
         /\ VecSum(p_0, n_s) = One
         /\ \A s \in States, a \in Actions : ColSum(s, a) \in {0, One}) =>
            ~Failed(e)

\* C7: the reward a step returns is r[s, action] for the state s the engine
\* was in when the step began.
C7_RewardOfStateBefore ==
    \A e \in engines :
        \A i \in 1..Len(hist[e]) :
            StepReturned(hist[e][i]) =>
                hist[e][i].reward =
                    r[<<Norm(hist[e][i].state_before, n_s), Norm(hist[e][i].action, n_a)>>]

C7_Witness ==
    \E e \in engines :
        /\ Len(hist[e]) >= 2
        /\ StepReturned(hist[e][1]) /\ StepReturned(hist[e][2])
        /\ hist[e][1].state_before = hist[e][2].state_before
        /\ hist[e][1].action = hist[e][2].action
        /\ hist[e][1].sampled # hist[e][2].sampled
        /\ hist[e][2].sampled # hist[e][2].state_before
        /\ r[<<hist[e][2].sampled, Norm(hist[e][2].action, n_a)>>] # hist[e][2].reward

\* C8: a step returns the same value as terminated and as truncated, and it
\* is true exactly when the sampled state is in terminal_states.
C8_DoneIsTerminalMembership ==
    \A e \in engines :
        \A i \in 1..Len(hist[e]) :
            StepReturned(hist[e][i]) =>
                /\ hist[e][i].terminated = hist[e][i].truncated
                /\ hist[e][i].terminated <=> (hist[e][i].sampled \in env[e].terminal_states)

C8_Witness ==
    \E e \in engines :
        /\ hist[e] # <<>>
        /\ StepReturned(LastCall(e))
        /\ LastCall(e).sampled # LastCall(e).state_before

\* C9: a reset whose options hold start_state = k leaves the engine in state
\* k and returns the observation <<k>> with an empty info.
C9_ResetOverride ==
    \A e \in engines :
        (hist[e] # <<>> /\ LastCall(e).op = "reset" /\ HasOverride(LastCall(e))) =>
            LET k == Get(TheValue(LastCall(e).options), "start_state")
            IN  /\ env[e].state = k
                /\ LastCall(e).obs = <<k>>
                /\ LastCall(e).info = {}
                /\ LastCall(e).returned

C9_Witness ==
    \E e \in engines :
        /\ hist[e] # <<>> /\ LastCall(e).op = "reset" /\ HasOverride(LastCall(e))
        /\ env[e].state # LastCall(e).sampled
        /\ env[e].state \in States
        /\ p_0[env[e].state] = 0

\* C10: two engines built from the same p_0, p, r, reset with the same seed
\* and given the same actions return the same observations, rewards and
\* done flags.
SeededRun(e) ==
    /\ hist[e] # <<>>
    /\ hist[e][1].op = "reset"
    /\ hist[e][1].seed # {}
    /\ ~HasOverride(hist[e][1])
Outputs(c) == <<c.returned, c.exc, c.obs, c.reward, c.terminated, c.truncated>>
C10_SeedDeterminism ==
    \A e1, e2 \in engines :
        (/\ SeededRun(e1) /\ SeededRun(e2)
         /\ hist[e1][1].seed = hist[e2][1].seed
         /\ Len(hist[e1]) = Len(hist[e2])
         /\ \A i \in 1..Len(hist[e1]) :
                hist[e1][i].op = hist[e2][i].op /\ hist[e1][i].action = hist[e2][i].action) =>
            \A i \in 1..Len(hist[e1]) : Outputs(hist[e1][i]) = Outputs(hist[e2][i])

\* C11 as stated: a step whose action is outside 0..N_a-1 raises IndexError,
\* returns nothing and leaves the state as it was.
C11_OutOfRangeActionFails ==
    \A e \in engines :
        \A i \in 1..Len(hist[e]) :
            (hist[e][i].op = "step" /\ hist[e][i].action \notin Actions) =>
                /\ ~hist[e][i].returned
                /\ hist[e][i].exc = "IndexError"
                /\ i = Len(hist[e]) => env[e].state = hist[e][i].state_before

\* C11 amended: a step whose action is outside -N_a..N_a-1 raises IndexError,
\* returns nothing and leaves the state as it was; a step from a state id
\* with an action a in -N_a..-1 returns, with the reward of action a + N_a.
C11_ActionBeyondWrapFails ==
    \A e \in engines :
        \A i \in 1..Len(hist[e]) :
            LET c == hist[e][i]
            IN  /\ (c.op = "step" /\ (c.action < 0 - n_a \/ c.action >= n_a)) =>
                    /\ ~c.returned
                    /\ c.exc = "IndexError"
                    /\ i = Len(hist[e]) => env[e].state = c.state_before
                /\ (/\ c.op = "step"
                    /\ c.action < 0 /\ c.action >= 0 - n_a
                    /\ c.state_before \in States) =>
                    /\ c.returned
                    /\ c.reward = r[<<c.state_before, c.action + n_a>>]

C11_Witness ==
    \E e \in engines :
        /\ Len(hist[e]) >= 2
        /\ hist[e][1].op = "step" /\ hist[e][1].action < 0 /\ hist[e][1].returned
        /\ hist[e][2].op = "step" /\ hist[e][2].action < 0 - n_a
        /\ hist[e][2].exc = "IndexError"
        /\ n_a = 2

\* C12: no call changes p_0, p, r or terminal_states of a constructed
\* engine, and only reset and step change its state.
C12_Frame ==
    [][\A e \in engines :
        env[e].status = "ok" =>
            /\ p_0' = p_0 /\ p' = p /\ r' = r
            /\ env'[e].status = "ok"
            /\ env'[e].attrs = env[e].attrs
            /\ env'[e].terminal_states = env[e].terminal_states
            /\ env'[e].state # env[e].state =>
                (hist'[e] # hist[e] /\ last_op'[e] \in {"reset", "step"})]_vars

C12_Witness ==
    \E e \in engines :
        /\ last_op[e] = "close"
        /\ out = <<"Current state", env[e].state>>
        /\ Len(hist[e]) >= 2 /\ StepReturned(LastCall(e))
        /\ env[e].state # 0

\* C13: in a constructed engine a state id s is in terminal_states exactly
\* when the entries p[i, j, s] over all i and j sum to 0.
C13_TerminalIsZeroSlice ==
    \A e \in engines :
        env[e].status = "ok" =>
            /\ env[e].terminal_states \subseteq States
            /\ \A s \in States :
                s \in env[e].terminal_states <=>
                    SumTo([j \in States |-> SumTo([i \in States |-> p[<<i, j, s>>]], n_s)],
                          n_s) = 0

C13_Witness ==
    \E e \in engines :
        /\ env[e].status = "ok"
        /\ n_s = 2
        /\ last_op[e] = "step"
        /\ \E s \in States, a \in Actions : p[<<s, s, a>>] = 0

\* C14: after a reset without a start_state the state is a state id to
\* which p_0 gives positive weight.
C14_ResetSamplesSupport ==
    \A e \in engines :
        (last_op[e] = "reset" /\ ~HasOverride(LastCall(e))) =>
            /\ env[e].state \in States
            /\ p_0[env[e].state] > 0

C14_Witness ==
    \E e \in engines :
        /\ last_op[e] = "reset" /\ ~HasOverride(LastCall(e))
        /\ LastCall(e).options = {{}}
        /\ \E s \in States : p_0[s] = 0
        /\ env[e].state = 1

\* C15: a step from state id s with an action in 0..N_a-1 samples a state id
\* s2 with p[s2, s, action] > 0.
C15_StepSamplesColumnSupport ==
    \A e \in engines :
        \A i \in 1..Len(hist[e]) :
            LET c == hist[e][i]
            IN  (StepReturned(c) /\ c.action \in Actions /\ c.state_before \in States) =>
                    /\ c.sampled \in States
                    /\ p[<<c.sampled, c.state_before, c.action>>] > 0

C15_Witness ==
    \E e \in engines :
        /\ hist[e] # <<>>
        /\ StepReturned(LastCall(e))
        /\ LastCall(e).action \in Actions /\ LastCall(e).state_before \in States
        /\ LastCall(e).sampled = 1
        /\ p[<<0, LastCall(e).state_before, LastCall(e).action>>] = 0
        /\ \E s \in States, a \in Actions : p[<<0, s, a>>] > 0

\* C16: the observation a reset or step returns is the one-element sequence
\* of the engine's state at the return, and the info with it is empty.
C16_ObsIsState ==
    \A e \in engines :
        (last_op[e] \in {"reset", "step"} /\ LastCall(e).returned) =>
            /\ LastCall(e).obs = <<env[e].state>>
            /\ Len(LastCall(e).obs) = 1
            /\ LastCall(e).info = {}

C16_Witness ==
    \E e \in engines :
        /\ last_op[e] = "step" /\ LastCall(e).returned
        /\ LastCall(e).obs = <<1>>
        /\ hist[e][1].op = "reset" /\ hist[e][1].obs = <<1>>

\* C17: a constructed engine has no terminal states, and no step returns
\* terminated or truncated.
C17_NeverTerminates ==
    \A e \in engines :
        env[e].status = "ok" =>
            /\ env[e].terminal_states = {}
            /\ \A i \in 1..Len(hist[e]) :
                hist[e][i].op = "step" =>
                    ~hist[e][i].terminated /\ ~hist[e][i].truncated

C17_Witness ==
    \E e \in engines :
        /\ env[e].status = "ok"
        /\ Len(hist[e]) >= 2
        /\ StepReturned(hist[e][1]) /\ StepReturned(hist[e][2])
        /\ n_s = 2

\* C18: in a constructed engine whose state is a state id, the column of
\* every action in 0..N_a-1 sums to 1, and a step from a state id with such
\* an action returns.
C18_StepEnabled ==
    \A e \in engines :
        env[e].status = "ok" =>
            /\ env[e].state \in States =>
                \A a \in Actions : ColSum(env[e].state, a) = One
            /\ \A i \in 1..Len(hist[e]) :
                (/\ hist[e][i].op = "step"
                 /\ hist[e][i].state_before \in States
                 /\ hist[e][i].action \in Actions) =>
                    hist[e][i].returned

C18_Witness ==
    \E e \in engines :
        /\ env[e].status = "ok"
        /\ hist[e] # <<>>
        /\ hist[e][1].op = "reset" /\ HasOverride(hist[e][1])
        /\ env[e].state \in States
        /\ StepReturned(LastCall(e)) /\ LastCall(e).action \in Actions

\* C19: with more states than actions construction does not succeed: with
\* valid p_0 and columns it raises IndexError.
C19_MoreStatesThanActionsFails ==
    \A e \in engines :
        (Constructed(e) /\ n_s > n_a) =>
            /\ env[e].status # "ok"
            /\ (/\ VecSum(p_0, n_s) = One
                /\ \A s \in States, a \in Actions : ColSum(s, a) = One) =>
                    env[e].status = "IndexError"

C19_Witness ==
    \E e \in engines :
        /\ env[e].status = "IndexError"
        /\ n_s > n_a

====
